---- MODULE Spec2Model ----
(***************************************************************************)
(* Model of server.js: the in-memory credential store, the register and    *)
(* login handlers (with their await points), the JWT middleware and the    *)
(* webtoon routes that consume it, and the global middleware in front of   *)
(* the routes: the JSON body parser and the rate limiter.                  *)
(***************************************************************************)
EXTENDS Integers, Sequences, FiniteSets, TLC

\* ---------------------------------------------------------------- bounds
NumReqs    == 3     \* requests in one behaviour of the credential routes
NumApiReqs == 2     \* requests in one behaviour of the whole API
Stored     == 1     \* webtoons already in the collection at start-up
MaxLate    == 1     \* sampled instants from one hour on, in half seconds
NumGateReqs    == 2 \* requests followed through the global middleware
MaxOver        == 2 \* requests an origin sends beyond the limiter's max
MaxHalfWindows == 2 \* sampled instants of the limiter's clock, in half windows

Max(m, n) == IF m >= n THEN m ELSE n
Reqs      == 1..Max(Max(NumReqs, NumApiReqs), NumGateReqs)
CredReqs  == 1..NumReqs
ApiReqs   == 1..NumApiReqs
GateReqs  == 1..NumGateReqs
Origins   == {"ip1", "ip2"}           \* client origins (req.ip)
Usernames == {"a", "b"}
Undefined == "<undefined>"            \* a field that is absent from req.body
Passwords == {"p", "q", Undefined}

\* --------------------------------------------------------------- constants
JWT_SECRET   == "my-secret-key"
ExpiresInSec == 3600                  \* expiresIn: '1h'
HalfSecond   == 1000 \div 2           \* sampling grain of the clock, in ms

\* Sampled values of Date.now() (ms since process start).
Times ==
  { 0, HalfSecond, ExpiresInSec * 1000 - HalfSecond } \cup
  { ExpiresInSec * 1000 + k * HalfSecond : k \in 0..MaxLate - 1 }

\* rateLimit options (lines 19-22).
windowMs == 900000                 \* 15 * 60 * 1000: 15 minutes
max      == 100

\* Sampled values of Date.now() for the limiter's windows.
GateTimes == { k * (windowMs \div 2) : k \in 0..MaxHalfWindows }

VARIABLES users, now, db, nextId, pc, req, local, resp, prior,
          store, last, rx

vars == <<users, now, db, nextId, pc, req, local, resp, prior,
          store, last, rx>>

\* ------------------------------------------------------------ bcryptjs
IsString(v) == v # Undefined

\* bcrypt.hash(s, 10): a digest of s under a fresh salt.
BcryptHash(s, salt) == [pw |-> s, salt |-> salt]

\* bcrypt.compare(s, hash): recompute with the embedded salt and compare.
BcryptCompare(s, hash) == BcryptHash(s, hash.salt) = hash

\* ------------------------------------------------------------ jsonwebtoken
UnixSeconds(ms) == ms \div 1000       \* Math.floor(Date.now() / 1000)

Hmac(payload, key) == [over |-> payload, key |-> key]

NoPayload == [username |-> "", iat |-> 0, exp |-> 0]

\* jwt.sign({ username }, secret, { expiresIn: '1h' }) at time t (ms).
JwtSign(username, secret, t) ==
  LET pl == [username |-> username,
             iat      |-> UnixSeconds(t),
             exp      |-> UnixSeconds(t) + ExpiresInSec]
  IN  [payload |-> pl, sig |-> Hmac(pl, secret)]

\* One space-separated part of a header: a plain word or a three-segment JWT.
Word(w)   == [w |-> w, jwt |-> <<>>]
JwtPart(t) == [w |-> "", jwt |-> <<t>>]

\* jwt.verify(x, secret) at time t (ms); x is the value of split(' ')[1].
JwtVerifyAcceptBoundary(x, secret, t) ==
  IF ~x.defined \/ (x.part.jwt = <<>> /\ x.part.w = "")
  THEN [ok |-> FALSE, err |-> "jwt must be provided", payload |-> NoPayload]
  ELSE IF x.part.jwt = <<>>
  THEN [ok |-> FALSE, err |-> "jwt malformed", payload |-> NoPayload]
  ELSE LET tok == x.part.jwt[1] IN
       IF tok.sig # Hmac(tok.payload, secret)
       THEN [ok |-> FALSE, err |-> "invalid signature", payload |-> NoPayload]
       ELSE IF UnixSeconds(t) > tok.payload.exp
       THEN [ok |-> FALSE, err |-> "jwt expired", payload |-> NoPayload]
       ELSE [ok |-> TRUE, err |-> "", payload |-> tok.payload]

JwtVerifyNoSignature(x, secret, t) ==
  IF ~x.defined \/ (x.part.jwt = <<>> /\ x.part.w = "")
  THEN [ok |-> FALSE, err |-> "jwt must be provided", payload |-> NoPayload]
  ELSE IF x.part.jwt = <<>>
  THEN [ok |-> FALSE, err |-> "jwt malformed", payload |-> NoPayload]
  ELSE LET tok == x.part.jwt[1] IN
       IF UnixSeconds(t) >= tok.payload.exp
       THEN [ok |-> FALSE, err |-> "jwt expired", payload |-> NoPayload]
       ELSE [ok |-> TRUE, err |-> "", payload |-> tok.payload]

JwtVerify(x, secret, t) ==
  IF ~x.defined \/ (x.part.jwt = <<>> /\ x.part.w = "")
  THEN [ok |-> FALSE, err |-> "jwt must be provided", payload |-> NoPayload]
  ELSE IF x.part.jwt = <<>>
  THEN [ok |-> FALSE, err |-> "jwt malformed", payload |-> NoPayload]
  ELSE LET tok == x.part.jwt[1] IN
       IF tok.sig # Hmac(tok.payload, secret)
       THEN [ok |-> FALSE, err |-> "invalid signature", payload |-> NoPayload]
       ELSE IF UnixSeconds(t) >= tok.payload.exp
       THEN [ok |-> FALSE, err |-> "jwt expired", payload |-> NoPayload]
       ELSE [ok |-> TRUE, err |-> "", payload |-> tok.payload]

\* ------------------------------------------------------------ responses
NoToken == <<>>
NoResp  == [status |-> 0, body |-> "", token |-> NoToken]

Json(status, body, token) == [status |-> status, body |-> body, token |-> token]

Responded(r) == resp[r] # NoResp

\* Tokens handed out so far in register and login responses.
Issued == { resp[r].token[1] : r \in { s \in Reqs : resp[s].token # NoToken } }

\* ------------------------------------------------------------ requests
NoHeader == [present |-> FALSE, parts |-> <<>>]
Header(parts) == [present |-> TRUE, parts |-> parts]

NoBody  == [title |-> Undefined, description |-> Undefined, characters |-> Undefined]
NoUser  == [username |-> "", password |-> BcryptHash("", 0)]
NoLocal == [found |-> FALSE, user |-> NoUser, authed |-> FALSE, reqUser |-> NoPayload]

NoReq == [route |-> "", username |-> "", password |-> "",
          header |-> NoHeader, body |-> NoBody, id |-> 0]

\* ------------------------------------------------------------ authenticateJWT
\* token.split(' ')[1]: throws when the header is absent, is undefined when
\* the header has fewer than two parts.
ExtractToken(header) ==
  IF ~header.present
  THEN [thrown |-> TRUE, defined |-> FALSE, part |-> Word("")]
  ELSE IF Len(header.parts) < 2
  THEN [thrown |-> FALSE, defined |-> FALSE, part |-> Word("")]
  ELSE [thrown |-> FALSE, defined |-> TRUE, part |-> header.parts[2]]

\* Lines 44-58: either req.user is set and next() is called, or the catch
\* block answers 400.
AuthenticateJWTNextOutsideTry(header, t) ==
  LET extractedToken == ExtractToken(header)
      verified == JwtVerify(extractedToken, JWT_SECRET, t)
  IN  [next |-> TRUE, reqUser |-> verified.payload, res |-> NoResp]

AuthenticateJWTNoTokenReply(header, t) ==
  LET extractedToken == ExtractToken(header)
      verified == JwtVerify(extractedToken, JWT_SECRET, t)
  IN  IF extractedToken.thrown
      THEN [next |-> FALSE, reqUser |-> NoPayload,
            res  |-> Json(401, "No token provided", NoToken)]
      ELSE IF ~verified.ok
      THEN [next |-> FALSE, reqUser |-> NoPayload,
            res  |-> Json(400, "Invalid token provided", NoToken)]
      ELSE [next |-> TRUE, reqUser |-> verified.payload, res |-> NoResp]

AuthenticateJWTLatestOnly(header, t) ==
  LET extractedToken == ExtractToken(header)
      verified == JwtVerify(extractedToken, JWT_SECRET, t)
      newer == { i \in Issued : /\ i.payload.username = verified.payload.username
                                /\ i.payload.iat > verified.payload.iat }
  IN  IF extractedToken.thrown \/ ~verified.ok \/ newer # {}
      THEN [next |-> FALSE, reqUser |-> NoPayload,
            res  |-> Json(400, "Invalid token provided", NoToken)]
      ELSE [next |-> TRUE, reqUser |-> verified.payload, res |-> NoResp]

AuthenticateJWTReplyAndNext(header, t) ==
  LET extractedToken == ExtractToken(header)
      verified == JwtVerify(extractedToken, JWT_SECRET, t)
  IN  IF extractedToken.thrown \/ ~verified.ok
      THEN [next |-> TRUE, reqUser |-> NoPayload,
            res  |-> Json(400, "Invalid token provided", NoToken)]
      ELSE [next |-> TRUE, reqUser |-> verified.payload, res |-> NoResp]

AuthenticateJWT(header, t) ==
  LET extractedToken == ExtractToken(header)
      verified == JwtVerify(extractedToken, JWT_SECRET, t)
  IN  IF extractedToken.thrown \/ ~verified.ok
      THEN [next |-> FALSE, reqUser |-> NoPayload,
            res  |-> Json(400, "Invalid token provided", NoToken)]
      ELSE [next |-> TRUE, reqUser |-> verified.payload, res |-> NoResp]

\* ------------------------------------------------------------ validateWebtoon
Text      == "text"
NotString == "<number>"

\* Lines 61-65: the fields that fail isString().
ValidationErrors(body) ==
  { f \in {"title", "description"} : body[f] # Text } \cup
  { f \in {"characters"} : body[f] \notin {Text, Undefined} }

Bodies ==
  { [title |-> Text, description |-> Text, characters |-> Undefined],
    [title |-> NotString, description |-> Undefined, characters |-> Text] }

\* Lines 140-144: the middleware chain of POST /webtoons up to the handler's
\* validationResult check: authenticateJWT, then validateWebtoon.
PostWebtoonChainValidateFirst(header, body, t) ==
  LET auth == AuthenticateJWT(header, t) IN
  IF ValidationErrors(body) # {}
  THEN [authed |-> auth.next, reqUser |-> auth.reqUser,
        res |-> Json(400, "validation errors", NoToken)]
  ELSE IF ~auth.next
  THEN [authed |-> FALSE, reqUser |-> NoPayload, res |-> auth.res]
  ELSE [authed |-> TRUE, reqUser |-> auth.reqUser, res |-> NoResp]

PostWebtoonChain(header, body, t) ==
  LET auth == AuthenticateJWT(header, t) IN
  IF ~auth.next
  THEN [authed |-> FALSE, reqUser |-> NoPayload, res |-> auth.res]
  ELSE IF ValidationErrors(body) # {}
  THEN [authed |-> TRUE, reqUser |-> auth.reqUser,
        res |-> Json(400, "validation errors", NoToken)]
  ELSE [authed |-> TRUE, reqUser |-> auth.reqUser, res |-> NoResp]

\* ------------------------------------------------------------ users array
\* users.find(user => user.username === username): first match, if any.
FindUserNever(us, username) == [found |-> FALSE, user |-> NoUser]

FindUser(us, username) ==
  LET hits == { i \in 1..Len(us) : us[i].username = username }
  IN  IF hits = {}
      THEN [found |-> FALSE, user |-> NoUser]
      ELSE [found |-> TRUE,
            user  |-> us[CHOOSE i \in hits : \A j \in hits : i <= j]]

\* Lines 75-78: the synchronous part of the register handler. A duplicate is
\* answered at once and the array is left alone; otherwise the handler goes
\* on to await bcrypt.hash.
RegisterBeginReplacing(us, username) ==
  IF FindUser(us, username).found
  THEN [users |-> SelectSeq(us, LAMBDA e : e.username # username),
        res   |-> Json(400, "User already exists", NoToken)]
  ELSE [users |-> us, res |-> NoResp]

RegisterBeginOverwriting(us, username) ==
  IF FindUser(us, username).found
  THEN [users |-> [i \in 1..Len(us) |->
                     IF us[i].username = username
                     THEN [us[i] EXCEPT !.password = BcryptHash("", 0)]
                     ELSE us[i]],
        res   |-> Json(400, "User already exists", NoToken)]
  ELSE [users |-> us, res |-> NoResp]

RegisterBegin(us, username) ==
  IF FindUser(us, username).found
  THEN [users |-> us, res |-> Json(400, "User already exists", NoToken)]
  ELSE [users |-> us, res |-> NoResp]

\* ------------------------------------------------------------ express-rate-limit
\* The limiter's store: per client origin, the requests counted in the
\* current window and the instant the window began.
Unseen == [count |-> 0, windowStart |-> 0]

TooManyRequests ==
  Json(429, "Too many requests, please try again later.", NoToken)

\* The entry of an origin after one more request at time t: a first
\* request, or one that finds the window elapsed, starts a window with count
\* 1; any other adds one to the count.
NextEntryNoReset(e, t) ==
  IF e.count = 0
  THEN [count |-> 1, windowStart |-> t]
  ELSE [e EXCEPT !.count = @ + 1]

NextEntry(e, t) ==
  IF e.count = 0 \/ t - e.windowStart >= windowMs
  THEN [count |-> 1, windowStart |-> t]
  ELSE [e EXCEPT !.count = @ + 1]

\* One request from origin o at time t: its entry is updated and the request
\* is admitted while the count is within max.
HitSharedKey(st, o, t) ==
  LET entry == NextEntry(st[o], t)
  IN  [store |-> [p \in DOMAIN st |-> entry], admitted |-> entry.count <= max]

Hit(st, o, t) ==
  LET entry == NextEntry(st[o], t)
  IN  [store |-> [st EXCEPT ![o] = entry], admitted |-> entry.count <= max]

\* n requests in a row from origin o at one instant t: the first may open a
\* window, each of the others finds that window running and adds one; the
\* answer is that of the last of them.
HitN(st, o, t, n) ==
  LET first == NextEntry(st[o], t)
      entry == IF n = 0 THEN st[o] ELSE [first EXCEPT !.count = @ + (n - 1)]
  IN  [store |-> [st EXCEPT ![o] = entry], admitted |-> entry.count <= max]

\* What the global middleware recorded of a request: its origin, whether
\* express.json() parsed its body, whether the limiter counted it.
NoRx == [origin |-> "", parsed |-> FALSE, counted |-> FALSE]

NoLast == [origin |-> "", res |-> NoResp]

\* ------------------------------------------------------------ state
Init ==
  /\ users  = <<>>
  /\ now    = 0
  /\ db     = 1..Stored
  /\ nextId = Stored + 1
  /\ pc     = [r \in Reqs |-> "idle"]
  /\ req    = [r \in Reqs |-> NoReq]
  /\ local  = [r \in Reqs |-> NoLocal]
  /\ resp   = [r \in Reqs |-> NoResp]
  /\ prior  = [r \in Reqs |-> {}]
  /\ store  = [o \in Origins |-> Unseen]
  /\ last   = NoLast
  /\ rx     = [r \in Reqs |-> NoRx]

\* The registrations that have been answered with success.
Registered == { s \in Reqs : req[s].route = "register" /\ resp[s].status = 200 }

\* A request enters its route: slots are taken in order, and a register or
\* login request records which registrations had already succeeded when it
\* arrived.
Arrive(r, rq) ==
  /\ pc[r] = "idle"
  /\ IF r = 1 THEN TRUE ELSE pc[r - 1] # "idle"
  /\ req'   = [req EXCEPT ![r] = rq]
  /\ prior' = [prior EXCEPT ![r] =
                 IF rq.route \in {"register", "login"} THEN Registered ELSE {}]

Reply(r, response) ==
  /\ resp' = [resp EXCEPT ![r] = response]
  /\ pc'   = [pc EXCEPT ![r] = "done"]

\* Date.now() moves forward to a later sampled instant.
Tick ==
  /\ \E t \in Times : t > now /\ now' = t
  /\ UNCHANGED <<users, db, nextId, pc, req, local, resp, prior, store, last, rx>>

\* ------------------------------------------------------------ POST /register
\* Lines 72-78: the duplicate check, up to the await of bcrypt.hash.
RegisterCheck(r) ==
  \E u \in Usernames, p \in Passwords :
    /\ Arrive(r, [NoReq EXCEPT !.route = "register", !.username = u, !.password = p])
    /\ LET begin == RegisterBegin(users, u) IN
       /\ users' = begin.users
       /\ IF begin.res # NoResp
          THEN Reply(r, begin.res)
          ELSE /\ pc' = [pc EXCEPT ![r] = "hash"]
               /\ UNCHANGED resp
    /\ UNCHANGED <<now, db, nextId, local, store, last, rx>>

\* Lines 81-90: bcrypt.hash settles; on success the user is pushed and a
\* token is returned, on rejection the error leaves the async handler.
RegisterStore(r) ==
  /\ pc[r] = "hash"
  /\ IF ~IsString(req[r].password)
     THEN /\ pc' = [pc EXCEPT ![r] = "escaped"]
          /\ UNCHANGED <<users, resp>>
     ELSE LET hashedPassword == BcryptHash(req[r].password, r)
              newUser == [username |-> req[r].username, password |-> hashedPassword]
              token   == JwtSign(newUser.username, JWT_SECRET, now)
          IN  /\ users' = Append(users, newUser)
              /\ Reply(r, Json(200, "User registered successfully", <<token>>))
  /\ UNCHANGED <<now, db, nextId, req, local, prior, store, last, rx>>

\* ------------------------------------------------------------ POST /login
\* Lines 95-101: the lookup, up to the await of bcrypt.compare.
LoginFind(r) ==
  \E u \in Usernames, p \in Passwords :
    /\ Arrive(r, [NoReq EXCEPT !.route = "login", !.username = u, !.password = p])
    /\ LET user == FindUser(users, u) IN
       IF ~user.found
       THEN /\ Reply(r, Json(400, "Invalid credentials", NoToken))
            /\ UNCHANGED local
       ELSE /\ pc' = [pc EXCEPT ![r] = "compare"]
            /\ local' = [local EXCEPT ![r].found = TRUE, ![r].user = user.user]
            /\ UNCHANGED resp
    /\ UNCHANGED <<users, now, db, nextId, store, last, rx>>

\* Lines 104-112: bcrypt.compare settles.
LoginCompare(r) ==
  /\ pc[r] = "compare"
  /\ IF ~IsString(req[r].password)
     THEN /\ pc' = [pc EXCEPT ![r] = "escaped"]
          /\ UNCHANGED resp
     ELSE LET isMatch == BcryptCompare(req[r].password, local[r].user.password)
              token   == JwtSign(local[r].user.username, JWT_SECRET, now)
          IN  IF ~isMatch
              THEN Reply(r, Json(400, "Invalid credentials", NoToken))
              ELSE Reply(r, Json(200, "Logged in successfully", <<token>>))
  /\ UNCHANGED <<users, now, db, nextId, req, local, prior, store, last, rx>>

NextCred ==
  \/ Tick
  \/ \E r \in CredReqs : RegisterCheck(r)
  \/ \E r \in CredReqs : RegisterStore(r)
  \/ \E r \in CredReqs : LoginFind(r)
  \/ \E r \in CredReqs : LoginCompare(r)

SpecCred == Init /\ [][NextCred]_vars

\* ------------------------------------------------------------ clients
OtherUser(u) == CHOOSE v \in Usernames : v # u

\* What a client can make of an issued token without the signing secret:
\* change the subject, push the expiry, or sign the payload with its own key.
Tampered(t) ==
  { [t EXCEPT !.payload.username = OtherUser(@)],
    [t EXCEPT !.payload.exp = @ + ExpiresInSec],
    [t EXCEPT !.sig = Hmac(t.payload, "attacker-key")] }

WrongSchemes == {"Basic", "bearer"}

\* The Authorization headers a client may send.
Headers ==
  { NoHeader,
    Header(<<Word("Bearer")>>),
    Header(<<Word("Bearer"), Word("")>>),
    Header(<<Word("Bearer"), Word("garbage")>>) } \cup
  UNION { { Header(<<Word("Bearer"), JwtPart(t)>>),
            Header(<<JwtPart(t)>>),
            Header(<<Word("Bearer"), JwtPart(t), Word("x")>>) }
          \cup { Header(<<Word(w), JwtPart(t)>>) : w \in WrongSchemes }
          \cup { Header(<<Word("Bearer"), JwtPart(x)>>) : x \in Tampered(t) }
          : t \in Issued }

\* Ids a client may name: the first id of the collection (stored or deleted
\* by now) and one that was never handed out.
Ids == {1, nextId}

\* ------------------------------------------------------------ GET /webtoons
GetWebtoons(r) ==
  /\ Arrive(r, [NoReq EXCEPT !.route = "list"])
  /\ pc' = [pc EXCEPT ![r] = "find"]
  /\ UNCHANGED <<users, now, db, nextId, local, resp, store, last, rx>>

\* Lines 120-125: Webtoon.find() settles.
GetWebtoonsDone(r) ==
  /\ pc[r] = "find"
  /\ \E storeOk \in BOOLEAN :
       IF storeOk THEN Reply(r, Json(200, "webtoons", NoToken))
                  ELSE Reply(r, Json(500, "store error", NoToken))
  /\ UNCHANGED <<users, now, db, nextId, req, local, prior, store, last, rx>>

\* ------------------------------------------------------------ GET /webtoons/:id
GetWebtoon(r) ==
  /\ \E id \in Ids : Arrive(r, [NoReq EXCEPT !.route = "get", !.id = id])
  /\ pc' = [pc EXCEPT ![r] = "findById"]
  /\ UNCHANGED <<users, now, db, nextId, local, resp, store, last, rx>>

\* Lines 130-136: Webtoon.findById() settles.
GetWebtoonDone(r) ==
  /\ pc[r] = "findById"
  /\ \E storeOk \in BOOLEAN :
       IF ~storeOk THEN Reply(r, Json(500, "store error", NoToken))
       ELSE IF req[r].id \notin db
       THEN Reply(r, Json(404, "Webtoon not found", NoToken))
       ELSE Reply(r, Json(200, "webtoon", NoToken))
  /\ UNCHANGED <<users, now, db, nextId, req, local, prior, store, last, rx>>

\* ------------------------------------------------------------ POST /webtoons
\* Line 140 up to the await of save(): authenticateJWT, validateWebtoon and
\* the validationResult check.
PostWebtoon(r) ==
  \E h \in Headers, b \in Bodies :
    /\ Arrive(r, [NoReq EXCEPT !.route = "create", !.header = h, !.body = b])
    /\ LET chain == PostWebtoonChain(h, b, now) IN
       /\ local' = [local EXCEPT ![r].authed = chain.authed,
                                 ![r].reqUser = chain.reqUser]
       /\ IF chain.res # NoResp
          THEN Reply(r, chain.res)
          ELSE /\ pc' = [pc EXCEPT ![r] = "save"]
               /\ UNCHANGED resp
    /\ UNCHANGED <<users, now, db, nextId, store, last, rx>>

\* Lines 146-153: newWebtoon.save() settles.
PostWebtoonSave(r) ==
  /\ pc[r] = "save"
  /\ \E storeOk \in BOOLEAN :
       IF storeOk
       THEN /\ db' = db \cup {nextId}
            /\ nextId' = nextId + 1
            /\ Reply(r, Json(201, "webtoon", NoToken))
       ELSE /\ Reply(r, Json(500, "store error", NoToken))
            /\ UNCHANGED <<db, nextId>>
  /\ UNCHANGED <<users, now, req, local, prior, store, last, rx>>

\* ------------------------------------------------------------ DELETE /webtoons/:id
\* Line 157 up to the await of findByIdAndDelete(): authenticateJWT.
DeleteWebtoon(r) ==
  \E h \in Headers, id \in Ids :
    /\ Arrive(r, [NoReq EXCEPT !.route = "delete", !.header = h, !.id = id])
    /\ LET auth == AuthenticateJWT(h, now) IN
       IF ~auth.next
       THEN /\ Reply(r, auth.res)
            /\ UNCHANGED local
       ELSE /\ local' = [local EXCEPT ![r].authed = TRUE, ![r].reqUser = auth.reqUser]
            /\ pc' = [pc EXCEPT ![r] = "delete"]
            /\ UNCHANGED resp
    /\ UNCHANGED <<users, now, db, nextId, store, last, rx>>

\* Lines 158-164: Webtoon.findByIdAndDelete() settles.
DeleteWebtoonDone(r) ==
  /\ pc[r] = "delete"
  /\ \E storeOk \in BOOLEAN :
       IF ~storeOk
       THEN /\ Reply(r, Json(500, "store error", NoToken))
            /\ UNCHANGED db
       ELSE IF req[r].id \notin db
       THEN /\ Reply(r, Json(404, "Webtoon not found", NoToken))
            /\ UNCHANGED db
       ELSE /\ db' = db \ {req[r].id}
            /\ Reply(r, Json(200, "Webtoon deleted successfully", NoToken))
  /\ UNCHANGED <<users, now, nextId, req, local, prior, store, last, rx>>

Next ==
  \/ Tick
  \/ \E r \in ApiReqs : RegisterCheck(r)
  \/ \E r \in ApiReqs : RegisterStore(r)
  \/ \E r \in ApiReqs : LoginFind(r)
  \/ \E r \in ApiReqs : LoginCompare(r)
  \/ \E r \in ApiReqs : GetWebtoons(r)
  \/ \E r \in ApiReqs : GetWebtoonsDone(r)
  \/ \E r \in ApiReqs : GetWebtoon(r)
  \/ \E r \in ApiReqs : GetWebtoonDone(r)
  \/ \E r \in ApiReqs : PostWebtoon(r)
  \/ \E r \in ApiReqs : PostWebtoonSave(r)
  \/ \E r \in ApiReqs : DeleteWebtoon(r)
  \/ \E r \in ApiReqs : DeleteWebtoonDone(r)

Spec == Init /\ [][Next]_vars

\* ------------------------------------------------------------ limiter alone
\* Requests to a path no route matches: they pass the limiter and Express
\* answers them 404, so the limiter's answer is all there is to them.
NotFound == Json(404, "Cannot GET /", NoToken)

Traffic(o) ==
  /\ store[o].count < max + MaxOver
  /\ LET hit == Hit(store, o, now) IN
     /\ store' = hit.store
     /\ last'  = [origin |-> o,
                  res    |-> IF hit.admitted THEN NotFound ELSE TooManyRequests]
  /\ UNCHANGED <<users, now, db, nextId, pc, req, local, resp, prior, rx>>

TickGate ==
  /\ \E t \in GateTimes : t > now /\ now' = t
  /\ UNCHANGED <<users, db, nextId, pc, req, local, resp, prior, store, last, rx>>

NextLimiter ==
  \/ TickGate
  \/ \E o \in Origins : Traffic(o)

SpecLimiter == Init /\ [][NextLimiter]_vars

\* ------------------------------------------------------------ global middleware
\* The server starts with no request received yet.
InitGate ==
  /\ users  = <<>>
  /\ now    = 0
  /\ db     = 1..Stored
  /\ nextId = Stored + 1
  /\ pc     = [r \in Reqs |-> "new"]
  /\ req    = [r \in Reqs |-> NoReq]
  /\ local  = [r \in Reqs |-> NoLocal]
  /\ resp   = [r \in Reqs |-> NoResp]
  /\ prior  = [r \in Reqs |-> {}]
  /\ store  = [o \in Origins |-> Unseen]
  /\ last   = NoLast
  /\ rx     = [r \in Reqs |-> NoRx]

\* Origins are interchangeable: the first one to show up is called "ip1".
InOrder(o) ==
  \/ o = "ip1"
  \/ store["ip1"] # Unseen
  \/ \E r \in Reqs : rx[r].origin = "ip1"

\* Line 11, app.use(express.json()): the first middleware a request meets.
\* A body that is not well-formed JSON is answered 400 by Express's error
\* handling and the request goes no further.
Receive(r) ==
  /\ pc[r] = "new"
  /\ IF r = 1 THEN TRUE ELSE pc[r - 1] # "new"
  /\ \E o \in Origins, wellFormed \in BOOLEAN :
       /\ InOrder(o)
       /\ rx' = [rx EXCEPT ![r] = [origin |-> o, parsed |-> wellFormed,
                                   counted |-> FALSE]]
       /\ IF wellFormed
          THEN /\ pc' = [pc EXCEPT ![r] = "parsed"]
               /\ UNCHANGED resp
          ELSE Reply(r, Json(400, "Bad Request", NoToken))
  /\ UNCHANGED <<users, now, db, nextId, req, local, prior, store, last>>

\* Line 23, app.use(limiter): the second middleware. A request within the
\* limit goes on to the router, any other is answered 429.
LimitThenRoute(r) ==
  /\ pc[r] = "parsed"
  /\ LET hit == Hit(store, rx[r].origin, now) IN
     /\ store' = hit.store
     /\ rx'    = [rx EXCEPT ![r].counted = TRUE]
     /\ pc'    = [pc EXCEPT ![r] = "idle"]
     /\ resp'  = [resp EXCEPT ![r] =
                    IF hit.admitted THEN NoResp ELSE TooManyRequests]
  /\ UNCHANGED <<users, now, db, nextId, req, local, prior, last>>

Limit(r) ==
  /\ pc[r] = "parsed"
  /\ LET hit == Hit(store, rx[r].origin, now) IN
     /\ store' = hit.store
     /\ rx'    = [rx EXCEPT ![r].counted = TRUE]
     /\ IF hit.admitted
        THEN /\ pc' = [pc EXCEPT ![r] = "idle"]
             /\ UNCHANGED resp
        ELSE Reply(r, TooManyRequests)
  /\ UNCHANGED <<users, now, db, nextId, req, local, prior, last>>

\* An origin sends max - 1 requests in a row to a path no route matches.
Burst(o) ==
  /\ InOrder(o)
  /\ store[o].count + (max - 1) <= max + MaxOver
  /\ LET hit == HitN(store, o, now, max - 1) IN
     /\ store' = hit.store
     /\ last'  = [origin |-> o,
                  res    |-> IF hit.admitted THEN NotFound ELSE TooManyRequests]
  /\ UNCHANGED <<users, now, db, nextId, pc, req, local, resp, prior, rx>>

NextGate ==
  \/ \E o \in Origins : Burst(o)
  \/ \E r \in GateReqs : Receive(r)
  \/ \E r \in GateReqs : Limit(r)
  \/ \E r \in GateReqs : RegisterCheck(r)
  \/ \E r \in GateReqs : RegisterStore(r)
  \/ \E r \in GateReqs : PostWebtoon(r)
  \/ \E r \in GateReqs : PostWebtoonSave(r)

SpecGate == InitGate /\ [][NextGate]_vars

\* ====================================================================
\* Properties of the credential routes (checked under SpecCred)
\* ====================================================================
IsRegister(r) == req[r].route = "register"
IsLogin(r)    == req[r].route = "login"
Finished(r)   == pc[r] \in {"done", "escaped"}

DuplicateIdentity  == Json(400, "User already exists", NoToken)
InvalidCredentials == Json(400, "Invalid credentials", NoToken)

\* C1: concurrent registrations of one username never both succeed: at most
\* one register request per username has the success response, and the users
\* array never holds two entries with the same username.
C1_UsernamesUnique ==
  /\ \A i, j \in 1..Len(users) :
       users[i].username = users[j].username => i = j
  /\ \A r, s \in Registered :
       req[r].username = req[s].username => r = s

\* C2: once register(U, P) has returned success, every later login(U, P)
\* succeeds and returns a token that verifies with subject U.
C2_RegisteredCanLogin ==
  \A r \in Reqs : \A s \in prior[r] :
    ( /\ IsLogin(r) /\ Finished(r)
      /\ req[r].username = req[s].username
      /\ req[r].password = req[s].password )
    => /\ resp[r].status = 200
       /\ resp[r].token # NoToken
       /\ LET tok == resp[r].token[1]
              v   == JwtVerify([defined |-> TRUE, part |-> JwtPart(tok)],
                               JWT_SECRET, tok.payload.iat * 1000)
          IN  v.ok /\ v.payload.username = req[r].username

\* C3: once a registration of U has completed successfully, every register
\* request for U that arrives afterwards is answered 400 "User already
\* exists", whatever its password, and is never answered with success.
C3_LaterRegisterRejected ==
  \A r \in Reqs : \A s \in prior[r] :
    (IsRegister(r) /\ req[r].username = req[s].username)
    => resp[r] = DuplicateIdentity /\ pc[r] = "done"

C3_Witness ==
  \E r \in Reqs : \E s \in prior[r] :
    /\ IsRegister(r)
    /\ req[r].username = req[s].username
    /\ req[r].password # req[s].password
    /\ resp[r] = DuplicateIdentity

\* C4: the step that answers a registration as a duplicate changes nothing
\* else: the users array is the same, the response carries no token and the
\* set of issued tokens is the same.
C4_DuplicateHasNoEffect ==
  [][ \A r \in Reqs :
        (resp[r] = NoResp /\ resp'[r].body = "User already exists")
        => /\ users' = users
           /\ resp'[r] = DuplicateIdentity
           /\ { resp'[s].token : s \in Reqs } = { resp[s].token : s \in Reqs }
           /\ \A s \in Reqs \ {r} : resp'[s] = resp[s] ]_vars

C4_Witness ==
  \E r \in Reqs :
    /\ IsRegister(r)
    /\ resp[r] = DuplicateIdentity
    /\ users # <<>>

\* C5: a login that fails because the username is not registered and a login
\* that fails because the password is wrong end the same way: status 400,
\* body "Invalid credentials", no token.
WrongPassword(r) ==
  /\ local[r].found
  /\ ~(IsString(req[r].password) /\
       BcryptCompare(req[r].password, local[r].user.password))

C5_LoginFailuresUniform ==
  \A r \in Reqs :
    (IsLogin(r) /\ Finished(r) /\ (~local[r].found \/ WrongPassword(r)))
    => resp[r] = InvalidCredentials

\* ====================================================================
\* Properties of the rate limiter (checked under SpecLimiter)
\* ====================================================================
\* The origin whose request the limiter handled in this step.
Counted(o) == store'[o] # store[o]

\* C11: per origin, a request that finds the window running (less than 15
\* minutes since windowStart) is the next of that window and is admitted
\* exactly when fewer than 100 came before it, so the first 100 are admitted
\* and the 101st is answered 429; a request that finds no entry or the window
\* elapsed is admitted and restarts the count at 1 with windowStart = now.
C11_HundredPerWindow ==
  [][ \A o \in Origins : Counted(o) =>
        LET e == store[o] IN
        /\ last'.origin = o
        /\ IF e.count > 0 /\ now - e.windowStart < 15 * 60 * 1000
           THEN /\ store'[o] = [count |-> e.count + 1, windowStart |-> e.windowStart]
                /\ e.count < 100  => last'.res = NotFound
                /\ e.count >= 100 => last'.res = TooManyRequests
           ELSE /\ store'[o] = [count |-> 1, windowStart |-> now]
                /\ last'.res = NotFound ]_vars

C11_Witness ==
  \E o, p \in Origins :
    /\ store[p].count = 101
    /\ now - store[p].windowStart < 15 * 60 * 1000
    /\ store[o] = [count |-> 1, windowStart |-> 15 * 60 * 1000]
    /\ last = [origin |-> o, res |-> NotFound]

\* C15: the counters of distinct origins are independent: a request from one
\* origin leaves every other origin's count and window as they were, it is
\* counted exactly once, and it is admitted exactly when its own origin's
\* count, this request included, is at most 100, so no window admits more
\* than 100 requests of one origin.
C15_OriginsIndependent ==
  [][ \A o \in Origins : (last'.origin = o /\ store' # store) =>
        /\ \A p \in Origins \ {o} : store'[p] = store[p]
        /\ store'[o].count \in {1, store[o].count + 1}
        /\ last'.res = NotFound <=> store'[o].count <= 100
        /\ last'.res = TooManyRequests <=> store'[o].count > 100 ]_vars

C15_Witness ==
  \E o, p \in Origins :
    /\ store[o].count > 100
    /\ store[p].count > 1 /\ store[p].count < 100
    /\ store[p].windowStart # store[o].windowStart
    /\ last = [origin |-> p, res |-> NotFound]

\* ====================================================================
\* Properties of the global middleware (checked under SpecGate)
\* ====================================================================
\* C12: the limiter is the first stage: whatever has been done to a request
\* (its body parsed, an answer sent, a route entered), the limiter had
\* counted the request before.
C12_LimiterFirst ==
  \A r \in Reqs : pc[r] # "new" => rx[r].counted

\* C13: a request the limiter rejects has no effect on any route: the step
\* that answers it 429 leaves users, the collection and the issued tokens as
\* they were, the request never enters a route, and its answer stays the 429.
C13_RejectedHasNoEffect ==
  [][ \A r \in Reqs :
        /\ (resp[r] = NoResp /\ resp'[r] = TooManyRequests) =>
             /\ users' = users /\ db' = db /\ nextId' = nextId
             /\ { resp'[s].token : s \in Reqs } = { resp[s].token : s \in Reqs }
             /\ pc'[r] = "done"
        /\ resp[r] = TooManyRequests =>
             /\ resp'[r] = TooManyRequests
             /\ pc'[r] = "done"
             /\ req'[r] = NoReq /\ local'[r] = NoLocal ]_vars

C13_Witness ==
  \E r, s \in Reqs :
    /\ resp[r] = TooManyRequests
    /\ store[rx[r].origin].count > max
    /\ rx[s].origin = rx[r].origin
    /\ IsRegister(s) /\ resp[s].status = 200

\* ====================================================================
\* Failure containment (checked under SpecCred)
\* ====================================================================
\* C14: every request that has run to its end has been answered: no failure
\* leaves the handler, not even a register or login request whose password
\* is missing or is not a string.
C14_EveryFailureContained ==
  \A r \in Reqs : Finished(r) => (pc[r] = "done" /\ Responded(r))

\* ====================================================================
\* Properties of tokens and of the protected routes (checked under Spec)
\* ====================================================================
IsProtected(r) == req[r].route \in {"create", "delete"}
IsRead(r)      == req[r].route \in {"list", "get"}

InvalidToken == Json(400, "Invalid token provided", NoToken)

Bearer(tok) == Header(<<Word("Bearer"), JwtPart(tok)>>)

Accepts(tok, t) == AuthenticateJWT(Bearer(tok), t).next

HourMs == ExpiresInSec * 1000

\* The request answered with a fresh token in this step, if any.
IssuesNow(r) == resp[r] = NoResp /\ resp'[r].token # NoToken

\* The protected request that arrives with an issued token in this step.
ArrivesWithIssued(r, tok) ==
  /\ pc[r] = "idle" /\ pc'[r] # "idle"
  /\ req'[r].route \in {"create", "delete"}
  /\ req'[r].header = Bearer(tok)

\* C6: a token issued at time T is accepted at every time in [T, T+1h) and
\* rejected at every time >= T+1h, the instant T+1h included.
C6_ValidForOneHour ==
  [][ \A r \in Reqs : IssuesNow(r) =>
        \A t \in Times : t >= now =>
          (Accepts(resp'[r].token[1], t) <=> t < now + HourMs) ]_vars

\* C6 (amended): a token issued at time T expires at the whole second
\* floor(T) + 3600: it is accepted at every time whose whole second is below
\* that and rejected from then on, so it is rejected at every time >= T+1h,
\* the instant T+1h included; a protected request carrying it is admitted
\* exactly while the clock's whole second is below the token's exp.
C6_ValidUntilExpirySecond ==
  [][ \A r \in Reqs :
        /\ IssuesNow(r) =>
             \A t \in Times : t >= now =>
               /\ Accepts(resp'[r].token[1], t)
                    <=> UnixSeconds(t) < UnixSeconds(now) + ExpiresInSec
               /\ t >= now + HourMs => ~Accepts(resp'[r].token[1], t)
        /\ \A tok \in Issued : ArrivesWithIssued(r, tok) =>
             /\ local'[r].authed <=> UnixSeconds(now) < tok.payload.exp
             /\ ~local'[r].authed => resp'[r] = InvalidToken ]_vars

C6_Witness ==
  \E r \in Reqs : \E tok \in Issued :
    /\ IsProtected(r)
    /\ req[r].header = Bearer(tok)
    /\ resp[r] = InvalidToken
    /\ now >= tok.payload.exp * 1000

\* The header carries, as its second part, a token signed with the secret.
ValidlySigned(h) ==
  /\ h.present
  /\ Len(h.parts) >= 2
  /\ h.parts[2].jwt # <<>>
  /\ h.parts[2].jwt[1].sig = Hmac(h.parts[2].jwt[1].payload, JWT_SECRET)

\* C7: the collection is changed (insert or delete) only by a request whose
\* token the middleware verified; the read routes are answered without any
\* credential and never with the authentication error.
C7_ProtectedNeedsAuth ==
  [][ /\ (db' # db \/ nextId' # nextId) =>
           \E r \in Reqs :
             /\ IsProtected(r)
             /\ pc[r] \in {"save", "delete"} /\ pc'[r] = "done"
             /\ local[r].authed
             /\ ValidlySigned(req[r].header)
             /\ local[r].reqUser = req[r].header.parts[2].jwt[1].payload
      /\ \A r \in Reqs :
           (pc[r] \in {"save", "delete"}) => ValidlySigned(req[r].header)
      /\ \A r \in Reqs :
           (IsRead(r) /\ resp'[r] # resp[r]) =>
             /\ req[r].header = NoHeader
             /\ ~local[r].authed
             /\ resp'[r].status \in {200, 404, 500} ]_vars

C7_Witness ==
  \E r \in Reqs :
    /\ IsProtected(r)
    /\ ValidlySigned(req[r].header)
    /\ resp[r].status \in {200, 201}

\* C8: the middleware admits a request only when its Authorization header is
\* exactly "Bearer <token>": the word Bearer, one space, one token part.
C8_OnlyBearerAdmitted ==
  \A r \in Reqs :
    (IsProtected(r) /\ local[r].authed)
    => /\ req[r].header.present
       /\ Len(req[r].header.parts) = 2
       /\ req[r].header.parts[1] = Word("Bearer")
       /\ req[r].header.parts[2].jwt # <<>>

\* C9: every rejection by the middleware is the same response, whether the
\* header is absent, lacks a second part, carries a malformed token, a token
\* with a bad signature or an expired token.
C9_RejectionsUniform ==
  /\ \A r \in Reqs :
       (IsProtected(r) /\ pc[r] # "idle" /\ ~local[r].authed)
       => resp[r] = InvalidToken
  /\ \A h \in Headers :
       ~AuthenticateJWT(h, now).next => AuthenticateJWT(h, now).res = InvalidToken

C9_Witness ==
  \E r, s \in Reqs :
    /\ IsProtected(r) /\ IsProtected(s)
    /\ req[r].header = NoHeader
    /\ req[s].header = Header(<<Word("Bearer"), Word("garbage")>>)
    /\ resp[r] = InvalidToken /\ resp[s] = InvalidToken

\* C10: a token that differs from every issued token is never accepted: an
\* admitted request carries an issued token and req.user is its payload, and
\* every altered copy of an issued token is answered "Invalid token provided".
C10_TamperedRejected ==
  /\ \A r \in Reqs :
       (IsProtected(r) /\ local[r].authed)
       => /\ Len(req[r].header.parts) >= 2
          /\ req[r].header.parts[2].jwt # <<>>
          /\ req[r].header.parts[2].jwt[1] \in Issued
          /\ local[r].reqUser = req[r].header.parts[2].jwt[1].payload
  /\ \A t \in Issued : \A x \in Tampered(t) \ Issued :
       /\ ~AuthenticateJWT(Bearer(x), now).next
       /\ AuthenticateJWT(Bearer(x), now).res = InvalidToken

C10_Witness ==
  \E r \in Reqs : \E t \in Issued : \E x \in Tampered(t) \ Issued :
    /\ IsProtected(r)
    /\ req[r].header = Bearer(x)
    /\ ~local[r].authed
    /\ resp[r] = InvalidToken

\* C16: tokens are independent of each other: at every moment each issued
\* token is accepted exactly while the clock's whole second is below its own
\* exp, whatever other tokens have been issued for the same identity since,
\* and a protected request that carried an issued token and was rejected
\* carried one that has expired.
C16_TokensIndependent ==
  \A tok \in Issued :
    /\ Accepts(tok, now) <=> UnixSeconds(now) < tok.payload.exp
    /\ \A r \in Reqs :
         (IsProtected(r) /\ req[r].header = Bearer(tok) /\ ~local[r].authed)
         => UnixSeconds(now) >= tok.payload.exp

C16_Witness ==
  \E t1, t2 \in Issued :
    /\ t1 # t2
    /\ t1.payload.username = t2.payload.username
    /\ Accepts(t1, now) /\ Accepts(t2, now)

\* C17: the users array only grows and its entries never change: every step
\* keeps each stored entry where it was, with the same username and the same
\* hash, and the only step that changes the array is a registration that
\* appends its new user and answers with success; login and the webtoon
\* routes leave the array as it was.
C17_UsersOnlyGrow ==
  [][ /\ Len(users') >= Len(users)
      /\ \A i \in 1..Len(users) : users'[i] = users[i]
      /\ users' # users =>
           \E r \in Reqs :
             /\ IsRegister(r) /\ pc[r] = "hash" /\ pc'[r] = "done"
             /\ resp'[r].status = 200
             /\ users' = Append(users,
                   [username |-> req[r].username,
                    password |-> BcryptHash(req[r].password, r)]) ]_vars

C17_Witness ==
  /\ users # <<>>
  /\ \E s \in Reqs : IsLogin(s) /\ local[s].found /\ Finished(s)

\* C18: on POST /webtoons authentication comes before validation: a request
\* the middleware does not admit is answered with the authentication error
\* whatever its payload and never reaches the store, and the validation
\* errors are sent only to a request the middleware admitted.
C18_AuthBeforeValidation ==
  [][ \A r \in Reqs :
        (pc[r] = "idle" /\ pc'[r] # "idle" /\ req'[r].route = "create")
        => LET auth == AuthenticateJWT(req'[r].header, now) IN
           /\ ~auth.next =>
                /\ resp'[r] = InvalidToken
                /\ pc'[r] = "done"
                /\ ~local'[r].authed
           /\ resp'[r].body = "validation errors" =>
                /\ auth.next
                /\ local'[r].authed
                /\ ValidationErrors(req'[r].body) # {} ]_vars

C18_Witness ==
  \E r \in Reqs :
    /\ req[r].route = "create"
    /\ ValidationErrors(req[r].body) # {}
    /\ ~local[r].authed
    /\ resp[r] = InvalidToken

\* C19: the middleware does exactly one of two things: it attaches the
\* verified payload and calls next() without sending anything, or it sends
\* the 400 "Invalid token provided" and does not call next(); a request it
\* passed on is never answered with that 400.
C19_NextOrReject ==
  /\ \A h \in Headers :
       LET auth == AuthenticateJWT(h, now) IN
       \/ auth.next /\ auth.res = NoResp /\ auth.reqUser # NoPayload
       \/ ~auth.next /\ auth.res = InvalidToken /\ auth.reqUser = NoPayload
  /\ \A r \in Reqs :
       (IsProtected(r) /\ pc[r] # "idle")
       => \/ /\ local[r].authed
             /\ ValidlySigned(req[r].header)
             /\ local[r].reqUser = req[r].header.parts[2].jwt[1].payload
             /\ resp[r] # InvalidToken
          \/ /\ ~local[r].authed
             /\ local[r].reqUser = NoPayload
             /\ resp[r] = InvalidToken /\ pc[r] = "done"

C19_Witness ==
  \E r \in Reqs :
    /\ IsProtected(r) /\ Finished(r)
    /\ local[r].authed
    /\ local[r].reqUser.username \in Usernames
    /\ resp[r] # InvalidToken

====
